---- MODULE Spec2Model ----
(***************************************************************************)
(* PIDWatcher (xbmc/utils/PIDWatcher.{h,cpp}): a handle to one operating   *)
(* system process, shared by several threads.  The model has one watcher   *)
(* instance, NumThreads caller threads, and the processes 1..MaxPid of the *)
(* operating system.                                                       *)
(*                                                                         *)
(* Every public method takes pid_mutex (CSingleLock) for its whole body,   *)
(* so a method body is one atomic step, taken when the mutex is free; a    *)
(* thread that calls a method while the mutex is held is blocked at the    *)
(* CSingleLock (pc = "lock").  A body is split only where the code blocks: *)
(*   - pid_assigned_condition.wait(lock) in ensure_pid releases the mutex, *)
(*     blocks until notifyAll, then takes the mutex again;                 *)
(*   - waitpid(pid_, &status_, 0) in wait_ blocks WITH the mutex held      *)
(*     until the process has terminated;                                   *)
(*   - exitedProperly/getExitStatus/success read status_ after wait() has  *)
(*     released the mutex.                                                 *)
(* CCriticalSection is recursive, so the nested lock in has_pid() taken by *)
(* the owner never blocks; only the owner is modelled.                     *)
(***************************************************************************)
EXTENDS Integers, FiniteSets, TLC

VARIABLES
    pid_,         \* pid_t pid_            : the pid to be watched (0 = none)
    status_,      \* int status_           : raw status stored by waitpid()
    has_exited_,  \* bool has_exited_
    wait_exit_,   \* bool wait_exit_
    pid_mutex,    \* CCriticalSection      : owning thread, or NoThread
    pid_assigned_condition, \* threads blocked in ConditionVariable::wait
    pc,           \* per thread: where it is inside the method it called
    op,           \* per thread: the method last called
    arg,          \* per thread: its argument (set_pid, setWaitExit)
    ret,          \* per thread: what the last call returned or threw
    proc,         \* the operating system's process table, by pid
    reaps,        \* number of waitpid() calls this watcher has issued
    destroyed     \* the destructor has run to completion

vars == <<pid_, status_, has_exited_, wait_exit_, pid_mutex,
          pid_assigned_condition, pc, op, arg, ret, proc, reaps, destroyed>>

watcher == <<pid_, status_, has_exited_, wait_exit_>>

----------------------------------------------------------------------------
(* Bounds *)

NumThreads == 2
MaxPid == 1

Threads == 1..NumThreads
Pids == 1..MaxPid               \* the PIDs that name a process
StalePid == MaxPid + 1          \* a positive PID that names no process
NoThread == 0
PidArgs == (0 - 1)..StalePid    \* arguments tried for set_pid
ExitCodes == {0, 7}             \* exit codes a child may return from main

SIGTERM == 15

----------------------------------------------------------------------------
(* <sys/wait.h>: the raw wait status of a process *)

ExitedStatus(c) == c * 256             \* status of exit(c)
SignaledStatus(sig) == sig             \* status of death by signal sig
WIFEXITED(s) == (s % 128) = 0
WEXITSTATUS(s) == (s \div 256) % 256

----------------------------------------------------------------------------
(* Return values.  sig records what terminate() did with kill(SIGTERM):    *)
(* "none" (not called), "sent" (kill returned 0), "failed" (logged).       *)

Pending == [tag |-> "pending", val |-> 0, sig |-> "none"]
Self == [tag |-> "self", val |-> 0, sig |-> "none"]      \* return *this
SelfSignal(s) == [tag |-> "self", val |-> 0, sig |-> s]
IntVal(i) == [tag |-> "int", val |-> i, sig |-> "none"]
BoolVal(b) == [tag |-> "bool", val |-> IF b THEN 1 ELSE 0, sig |-> "none"]
Throw(what) == [tag |-> what, val |-> 0, sig |-> "none"]
InvalidPID == Throw("invalid PID")
AlreadyWatching == Throw("already watching")

WaitOps == {"wait", "exitedProperly", "getExitStatus", "success"}
Methods == {"set_pid", "get_pid", "reset", "terminate", "running",
            "getWaitExit", "setWaitExit", "has_pid"} \cup WaitOps

Args(m) == IF m = "set_pid" THEN PidArgs
           ELSE IF m = "setWaitExit" THEN {0, 1} ELSE {0}

----------------------------------------------------------------------------
(* The operating system *)

(* st: "alive" (running), "zombie" (terminated, not yet waited for) or     *)
(* "gone" (no longer in the process table); status: the wait status it    *)
(* terminated with; term: a SIGTERM has been sent to it.                  *)
Alive == [st |-> "alive", status |-> 0, term |-> FALSE]
Gone(s) == [st |-> "gone", status |-> s, term |-> FALSE]

(* the process table's entry for p *)
procOf(p) == IF p \in Pids THEN proc[p] ELSE Gone(0)

(* kill(p, 0): 0 when the process exists (running or zombie), else -1 *)
kill0(p) == IF procOf(p).st = "gone" THEN 0 - 1 ELSE 0

(* kill(p, SIGTERM): the process table after the signal is sent *)
killTERM(p) ==
    IF procOf(p).st = "alive" THEN [proc EXCEPT ![p].term = TRUE] ELSE proc

(* the process table after waitpid(p) has returned *)
reaped(p) ==
    IF p \in Pids THEN [proc EXCEPT ![p] = Gone(proc[p].status)] ELSE proc

----------------------------------------------------------------------------
(* PIDWatcher::PIDWatcher() and PIDWatcher::PIDWatcher(pid_t) *)

Init ==
    /\ pid_ \in {0} \cup Pids
    /\ status_ = 0
    /\ has_exited_ = FALSE
    /\ wait_exit_ = TRUE
    /\ pid_mutex = NoThread
    /\ pid_assigned_condition = {}
    /\ pc = [t \in Threads |-> "idle"]
    /\ op = [t \in Threads |-> "none"]
    /\ arg = [t \in Threads |-> 0]
    /\ ret = [t \in Threads |-> Pending]
    /\ proc = [p \in Pids |-> Alive]
    /\ reaps = 0
    /\ destroyed = FALSE

has_pid == pid_ > 0

----------------------------------------------------------------------------
(* Calling a method *)

(* CSingleLock lock(pid_mutex): t can take the mutex *)
CanLock(t) == pid_mutex \in {NoThread, t}

(* the object is alive and t is free to call a method on it *)
Callable(t) ==
    /\ ~destroyed
    /\ pc[t] = "idle"
    /\ \A u \in Threads : op[u] # "~PIDWatcher"

(* mutant: only negative identifiers refused *)
set_pid_rejects_negative(pid) == pid < 0

(* set_pid tests its argument before it takes the mutex *)
set_pid_rejects(pid) == pid < 1

(* t enters the body of method m with argument a: it calls m now, or it    *)
(* called m earlier and was blocked at the CSingleLock; the mutex is free. *)
Invoke(t, m, a) ==
    /\ a \in Args(m)
    /\ \/ Callable(t)
       \/ pc[t] = "lock" /\ op[t] = m /\ arg[t] = a
    /\ CanLock(t)
    /\ op' = [op EXCEPT ![t] = m]
    /\ arg' = [arg EXCEPT ![t] = a]

(* t calls m while another thread holds the mutex: t blocks at CSingleLock *)
Block(t, m, a) ==
    /\ Callable(t)
    /\ m \in Methods
    /\ a \in Args(m)
    /\ ~(m = "set_pid" /\ set_pid_rejects(a))
    /\ ~CanLock(t)
    /\ op' = [op EXCEPT ![t] = m]
    /\ arg' = [arg EXCEPT ![t] = a]
    /\ pc' = [pc EXCEPT ![t] = "lock"]
    /\ ret' = [ret EXCEPT ![t] = Pending]
    /\ UNCHANGED <<watcher, pid_mutex, pid_assigned_condition, proc, reaps,
                   destroyed>>

(* The thread's call returns r (or throws r): the CSingleLock goes out of  *)
(* scope and the thread is idle again.                                     *)
Returns(t, r) ==
    /\ pc' = [pc EXCEPT ![t] = "idle"]
    /\ ret' = [ret EXCEPT ![t] = r]
    /\ pid_mutex' = NoThread

----------------------------------------------------------------------------
(* bool PIDWatcher::has_pid() *)

has_pid_call(t) ==
    /\ Invoke(t, "has_pid", 0)
    /\ Returns(t, BoolVal(has_pid))
    /\ UNCHANGED <<watcher, pid_assigned_condition, proc, reaps, destroyed>>

(* bool PIDWatcher::getWaitExit() *)
getWaitExit(t) ==
    /\ Invoke(t, "getWaitExit", 0)
    /\ Returns(t, BoolVal(wait_exit_))
    /\ UNCHANGED <<watcher, pid_assigned_condition, proc, reaps, destroyed>>

(* PIDWatcher& PIDWatcher::setWaitExit(bool b) *)
setWaitExit(t) ==
    /\ \E b \in {0, 1} :
          /\ Invoke(t, "setWaitExit", b)
          /\ wait_exit_' = (b = 1)
    /\ Returns(t, Self)
    /\ UNCHANGED <<pid_, status_, has_exited_, pid_assigned_condition, proc,
                   reaps, destroyed>>

----------------------------------------------------------------------------
(* bool PIDWatcher::running() *)

(* mutant: the process is probed again after has_exited_ was set *)
running_probes_again == has_pid

running_probes == ~has_exited_ /\ has_pid

(* mutant: not running while no PID is assigned *)
running_result_pessimistic == BoolVal(has_pid /\ ~has_exited_')

(* return !has_exited_; *)
running_result == BoolVal(~has_exited_')

running(t) ==
    /\ Invoke(t, "running", 0)
    /\ has_exited_' = IF running_probes THEN kill0(pid_) # 0 ELSE has_exited_
    /\ Returns(t, running_result)
    /\ UNCHANGED <<pid_, status_, wait_exit_, pid_assigned_condition, proc,
                   reaps, destroyed>>

----------------------------------------------------------------------------
(* PIDWatcher& PIDWatcher::set_pid(pid_t pid) *)

(* pid < 1: throws before the mutex is taken, so it never blocks *)
set_pid_throw(t) ==
    /\ Callable(t)
    /\ \E pid \in PidArgs :
          /\ set_pid_rejects(pid)
          /\ arg' = [arg EXCEPT ![t] = pid]
    /\ op' = [op EXCEPT ![t] = "set_pid"]
    /\ ret' = [ret EXCEPT ![t] = InvalidPID]
    /\ UNCHANGED <<watcher, pid_mutex, pid_assigned_condition, pc, proc,
                   reaps, destroyed>>

(* mutant: the comparison inverted *)
set_pid_conflict_inverted(pid) == has_pid /\ pid = pid_

(* mutant: any PID may replace the assigned one *)
set_pid_conflict_never(pid) == FALSE

set_pid_conflict(pid) == has_pid /\ pid # pid_

(* pid_assigned_condition.notifyAll(): every thread blocked in wait() is   *)
(* made runnable; it still has to take the mutex again before it returns   *)
(* from wait().                                                            *)
notifyAll(t) ==
    [u \in Threads |->
        IF u = t THEN "idle"
        ELSE IF u \in pid_assigned_condition THEN "relock"
        ELSE pc[u]]

set_pid(t) ==
    /\ \E pid \in PidArgs :
          /\ ~set_pid_rejects(pid)
          /\ Invoke(t, "set_pid", pid)
          /\ IF set_pid_conflict(pid)
             THEN /\ Returns(t, AlreadyWatching)
                  /\ UNCHANGED <<pid_, pid_assigned_condition>>
             ELSE /\ pid_' = pid
                  /\ pc' = notifyAll(t)
                  /\ pid_assigned_condition' = {}
                  /\ ret' = [ret EXCEPT ![t] = Self]
                  /\ pid_mutex' = NoThread
    /\ UNCHANGED <<status_, has_exited_, wait_exit_, proc, reaps, destroyed>>

----------------------------------------------------------------------------
(* PIDWatcher& PIDWatcher::reset() *)

(* mutant: reset() puts the watcher back into its constructed state *)
reset_fields_initial == [pid |-> 0, status |-> 0, has_exited |-> FALSE]

reset_fields == [pid |-> 0, status |-> 0, has_exited |-> TRUE]

reset(t) ==
    /\ Invoke(t, "reset", 0)
    /\ pid_' = reset_fields.pid
    /\ status_' = reset_fields.status
    /\ has_exited_' = reset_fields.has_exited
    /\ Returns(t, Self)
    /\ UNCHANGED <<wait_exit_, pid_assigned_condition, proc, reaps, destroyed>>

----------------------------------------------------------------------------
(* PIDWatcher& PIDWatcher::terminate() *)

(* mutant: the has_exited_ test forgotten *)
terminate_signals_exited == has_pid

terminate_signals == has_pid /\ ~has_exited_

terminate(t) ==
    /\ Invoke(t, "terminate", 0)
    /\ IF terminate_signals
       THEN /\ proc' = killTERM(pid_)
            /\ Returns(t, SelfSignal(IF procOf(pid_).st = "gone"
                                     THEN "failed" ELSE "sent"))
       ELSE /\ proc' = proc
            /\ Returns(t, Self)
    /\ UNCHANGED <<watcher, pid_assigned_condition, reaps, destroyed>>

----------------------------------------------------------------------------
(* void PIDWatcher::ensure_pid(CSingleLock& lock) *)

ensure_pid_waits == ~has_pid

(* pid_assigned_condition.wait(lock): the mutex is released and the thread *)
(* blocks until a notifyAll.                                               *)
condition_wait(t) ==
    /\ pc' = [pc EXCEPT ![t] = "cond"]
    /\ ret' = [ret EXCEPT ![t] = Pending]
    /\ pid_assigned_condition' = pid_assigned_condition \cup {t}
    /\ pid_mutex' = NoThread
    /\ UNCHANGED <<watcher, proc, reaps, destroyed>>

----------------------------------------------------------------------------
(* PIDWatcher& PIDWatcher::wait_(CSingleLock& lock), called with the mutex *)
(* held by t.  waitpid() is issued with the mutex held and blocks until    *)
(* the process is no longer running.                                       *)

(* mutant: the has_exited_ test forgotten *)
wait_reaps_unguarded == has_pid

wait_reaps == has_pid /\ ~has_exited_

(* wait_ returns to its caller: wait() returns *this, the status accessors *)
(* go on to read status_, the destructor completes.                        *)
wait_returns(t, m) ==
    /\ pid_mutex' = NoThread
    /\ pc' = [pc EXCEPT ![t] =
                 IF m \in {"wait", "~PIDWatcher"} THEN "idle" ELSE "read"]
    /\ ret' = [ret EXCEPT ![t] =
                 IF m \in {"wait", "~PIDWatcher"} THEN Self ELSE Pending]
    /\ destroyed' = (m = "~PIDWatcher")

wait_(t, m) ==
    IF wait_reaps
    THEN /\ pc' = [pc EXCEPT ![t] = "waitpid"]
         /\ ret' = [ret EXCEPT ![t] = Pending]
         /\ pid_mutex' = t
         /\ reaps' = reaps + 1
         /\ UNCHANGED <<watcher, proc, destroyed>>
    ELSE /\ has_exited_' = TRUE
         /\ wait_returns(t, m)
         /\ UNCHANGED <<pid_, status_, wait_exit_, proc, reaps>>

(* waitpid(pid_, &status_, 0) returns: a zombie is reaped and its status   *)
(* stored; when the process is not there to be waited for, waitpid fails   *)
(* and status_ keeps its value.  Then has_exited_ = true.                  *)
waitpid_return(t) ==
    /\ pc[t] = "waitpid"
    /\ procOf(pid_).st # "alive"
    /\ status_' = IF procOf(pid_).st = "zombie" THEN procOf(pid_).status
                  ELSE status_
    /\ proc' = reaped(pid_)
    /\ has_exited_' = TRUE
    /\ wait_returns(t, op[t])
    /\ UNCHANGED <<pid_, wait_exit_, pid_assigned_condition, op, arg, reaps>>

----------------------------------------------------------------------------
(* pid_t PIDWatcher::get_pid() *)

get_pid(t) ==
    /\ Invoke(t, "get_pid", 0)
    /\ IF ensure_pid_waits
       THEN condition_wait(t)
       ELSE /\ Returns(t, IntVal(pid_))
            /\ UNCHANGED <<watcher, pid_assigned_condition, proc, reaps,
                           destroyed>>

(* PIDWatcher& PIDWatcher::wait(), also as the first statement of          *)
(* exitedProperly(), getExitStatus() and success()                         *)
wait(t) ==
    \E m \in WaitOps :
       /\ Invoke(t, m, 0)
       /\ IF ensure_pid_waits
          THEN condition_wait(t)
          ELSE wait_(t, m) /\ UNCHANGED pid_assigned_condition

(* A notified thread takes the mutex again, returns from ensure_pid and    *)
(* goes on with its method: ensure_pid tests has_pid() once, with if.      *)
ensure_pid_return(t) ==
    /\ pc[t] = "relock"
    /\ CanLock(t)
    /\ IF op[t] = "get_pid"
       THEN /\ Returns(t, IntVal(pid_))
            /\ UNCHANGED <<watcher, proc, reaps, destroyed>>
       ELSE wait_(t, op[t])
    /\ UNCHANGED <<pid_assigned_condition, op, arg>>

(* bool exitedProperly(), int getExitStatus(), bool success(): after       *)
(* wait() has returned, status_ is read without the mutex.                 *)
status_result(m) ==
    CASE m = "exitedProperly" -> BoolVal(WIFEXITED(status_))
      [] m = "getExitStatus"  -> IntVal(WEXITSTATUS(status_))
      [] m = "success"        ->
             BoolVal(WIFEXITED(status_) /\ WEXITSTATUS(status_) = 0)

read_status(t) ==
    /\ pc[t] = "read"
    /\ pc' = [pc EXCEPT ![t] = "idle"]
    /\ ret' = [ret EXCEPT ![t] = status_result(op[t])]
    /\ UNCHANGED <<watcher, pid_mutex, pid_assigned_condition, op, arg, proc,
                   reaps, destroyed>>

----------------------------------------------------------------------------
(* PIDWatcher::~PIDWatcher().  The object is destroyed by one thread when  *)
(* no other thread is inside a method; wait() finds a PID assigned, so     *)
(* ensure_pid returns at once.                                             *)

(* mutant: the wait-on-exit flag ignored *)
destructor_waits_for_any_pid == has_pid

destructor_waits == has_pid /\ wait_exit_

destructor(t) ==
    /\ ~destroyed
    /\ \A u \in Threads : pc[u] = "idle" /\ op[u] # "~PIDWatcher"
    /\ op' = [op EXCEPT ![t] = "~PIDWatcher"]
    /\ arg' = [arg EXCEPT ![t] = 0]
    /\ IF destructor_waits
       THEN wait_(t, "~PIDWatcher")
       ELSE /\ destroyed' = TRUE
            /\ ret' = [ret EXCEPT ![t] = Self]
            /\ UNCHANGED <<watcher, pc, pid_mutex, proc, reaps>>
    /\ UNCHANGED pid_assigned_condition

----------------------------------------------------------------------------
(* The environment: the watched processes *)

(* A running process returns c from main *)
ProcExit(p, c) ==
    /\ proc[p].st = "alive"
    /\ proc' = [proc EXCEPT ![p].st = "zombie", ![p].status = ExitedStatus(c)]
    /\ UNCHANGED <<watcher, pid_mutex, pid_assigned_condition, pc, op, arg,
                   ret, reaps, destroyed>>

(* A running process that was sent SIGTERM dies of it *)
ProcTerminated(p) ==
    /\ proc[p].st = "alive"
    /\ proc[p].term
    /\ proc' = [proc EXCEPT ![p].st = "zombie",
                            ![p].status = SignaledStatus(SIGTERM)]
    /\ UNCHANGED <<watcher, pid_mutex, pid_assigned_condition, pc, op, arg,
                   ret, reaps, destroyed>>

(* A terminated process leaves the process table without this watcher's    *)
(* waitpid: its parent reaped it (the watched PID need not be a child of   *)
(* this program), or SIGCHLD is ignored.  This is the case running()       *)
(* tests for with kill(pid_, 0) != 0.                                      *)
ProcVanishes(p) ==
    /\ proc[p].st = "zombie"
    /\ proc' = [proc EXCEPT ![p] = Gone(proc[p].status)]
    /\ UNCHANGED <<watcher, pid_mutex, pid_assigned_condition, pc, op, arg,
                   ret, reaps, destroyed>>

----------------------------------------------------------------------------

Next ==
    \/ \E t \in Threads, m \in Methods, a \in PidArgs : Block(t, m, a)
    \/ \E t \in Threads : has_pid_call(t)
    \/ \E t \in Threads : getWaitExit(t)
    \/ \E t \in Threads : setWaitExit(t)
    \/ \E t \in Threads : running(t)
    \/ \E t \in Threads : set_pid_throw(t)
    \/ \E t \in Threads : set_pid(t)
    \/ \E t \in Threads : reset(t)
    \/ \E t \in Threads : terminate(t)
    \/ \E t \in Threads : get_pid(t)
    \/ \E t \in Threads : wait(t)
    \/ \E t \in Threads : ensure_pid_return(t)
    \/ \E t \in Threads : waitpid_return(t)
    \/ \E t \in Threads : read_status(t)
    \/ \E t \in Threads : destructor(t)
    \/ \E p \in Pids, c \in ExitCodes : ProcExit(p, c)
    \/ \E p \in Pids : ProcTerminated(p)
    \/ \E p \in Pids : ProcVanishes(p)

Spec == Init /\ [][Next]_vars

----------------------------------------------------------------------------
C2_HasExitedMonotonic == [][has_exited_ => has_exited_']_vars

(* a set_pid succeeded after reset(): a PID is assigned and has_exited_    *)
(* is still true                                                           *)
C2_Witness ==
    \E t, u \in Threads :
       /\ op[u] = "reset" /\ ret[u] = Self
       /\ op[t] = "set_pid" /\ ret[t] = Self /\ pid_ = arg[t]
       /\ pid_ > 0
       /\ has_exited_

----------------------------------------------------------------------------
(* C3 (as claimed): while one thread is inside waitpid() for a process     *)
(* that is still running, no thread that called running() or terminate()   *)
(* is kept waiting: such a call is never blocked at the mutex that the     *)
(* waiting thread holds until the process exits.                           *)
C3_ProbeAndTerminateNeverWaitForExit ==
    \A t, u \in Threads :
       ~(/\ pc[t] = "waitpid"
         /\ procOf(pid_).st = "alive"
         /\ pc[u] = "lock"
         /\ op[u] \in {"running", "terminate"})

(* C4 (as claimed): a get_pid() that returns, returns the assigned PID,    *)
(* never 0 or another non-positive value.                                  *)
C4_GetPidReturnsAssignedPid ==
    \A t \in Threads :
       (op[t] = "get_pid" /\ ret[t].tag = "int") => ret[t].val > 0

(* C5: waitpid() is issued at most once per watcher; it is issued only in  *)
(* a state where has_exited_ is false, and has_exited_ is true as soon as  *)
(* the thread is back from it.                                             *)
C5_ReapAtMostOnce ==
    /\ [](reaps <= 1)
    /\ [][reaps' # reaps => (~has_exited_ /\ reaps' = reaps + 1)]_vars
    /\ [][\A t \in Threads :
            (pc[t] = "waitpid" /\ pc'[t] # "waitpid") => has_exited_']_vars

(* two threads have both come back from wait() (or a status accessor's     *)
(* wait) and one waitpid() was issued                                      *)
C5_Witness ==
    \E t, u \in Threads :
       /\ t # u
       /\ op[t] \in WaitOps /\ pc[t] = "idle" /\ ret[t] # Pending
       /\ op[u] \in WaitOps /\ pc[u] = "idle" /\ ret[u] # Pending
       /\ reaps = 1
       /\ has_exited_

(* C6 (as claimed): wait() entered in a state where has_exited_ is true    *)
(* (by a reap, a failed probe or reset()) returns in that step, issues no  *)
(* waitpid() and leaves status_ unchanged.                                 *)
C6_WaitOnExitedReturnsAtOnce ==
    [][\A t \in Threads :
          (has_exited_ /\ wait(t) /\ op'[t] = "wait")
             => /\ pc'[t] = "idle"
                /\ ret'[t] = Self
                /\ status_' = status_
                /\ reaps' = reaps]_vars

(* C7: set_pid(pid) with pid <= 0 throws the invalid-PID error and changes *)
(* nothing: the four fields keep their values, no thread blocked on the    *)
(* condition is woken, the mutex is not taken.                             *)
C7_InvalidPidRejected ==
    [][\A t \in Threads :
          (/\ \/ set_pid_throw(t)
              \/ set_pid(t)
              \/ \E a \in PidArgs : Block(t, "set_pid", a)
           /\ arg'[t] < 1)
             => /\ ret'[t] = InvalidPID
                /\ pc' = pc
                /\ UNCHANGED <<watcher, pid_assigned_condition, pid_mutex,
                               proc>>]_vars

(* set_pid was refused with the invalid-PID error; the watcher is still    *)
(* unassigned and the other thread is still blocked on the condition       *)
C7_Witness ==
    \E t, u \in Threads :
       /\ op[t] = "set_pid" /\ arg[t] < 1 /\ ret[t] = InvalidPID
       /\ pc[u] = "cond" /\ u \in pid_assigned_condition
       /\ pid_ = 0
       /\ ~has_exited_

(* C8: while a PID p is assigned, set_pid(p) succeeds and leaves pid_,     *)
(* status_ and has_exited_ unchanged; set_pid(q) with q > 0 and q # p      *)
(* throws the already-watching error and leaves all state unchanged; and   *)
(* get_pid() returns p.                                                    *)
C8_Reassign ==
    /\ [][\A t \in Threads :
            (set_pid(t) /\ has_pid)
               => IF arg'[t] = pid_
                  THEN /\ ret'[t] = Self
                       /\ UNCHANGED <<pid_, status_, has_exited_>>
                  ELSE /\ ret'[t] = AlreadyWatching
                       /\ pc' = [pc EXCEPT ![t] = "idle"]
                       /\ UNCHANGED <<watcher, pid_assigned_condition, proc,
                                      reaps>>]_vars
    /\ [][\A t \in Threads :
            (get_pid(t) /\ has_pid) => ret'[t] = IntVal(pid_)]_vars

(* one thread's set_pid(p) succeeded, the other's set_pid(q), q # p, was   *)
(* refused, and p is still the assigned PID                                *)
C8_Witness ==
    \E t, u \in Threads :
       /\ op[t] = "set_pid" /\ ret[t] = Self /\ arg[t] = pid_
       /\ op[u] = "set_pid" /\ ret[u] = AlreadyWatching /\ arg[u] # pid_
       /\ arg[u] > 0
       /\ pid_ > 0

(* C9 (as claimed): when the watched process has terminated normally with  *)
(* exit code c, a status accessor that has come back from its wait()       *)
(* reports it: exitedProperly() is true, getExitStatus() is c, success()   *)
(* is (c = 0).                                                             *)
C9_AccessorsReportActualExit ==
    [][\A t \in Threads :
          (/\ read_status(t)
           /\ pid_ \in Pids
           /\ procOf(pid_).st # "alive"
           /\ WIFEXITED(procOf(pid_).status))
             => ret'[t] =
                  (CASE op[t] = "exitedProperly" -> BoolVal(TRUE)
                     [] op[t] = "getExitStatus" ->
                           IntVal(WEXITSTATUS(procOf(pid_).status))
                     [] op[t] = "success" ->
                           BoolVal(WEXITSTATUS(procOf(pid_).status) = 0))]_vars

(* C10 (as claimed): running() called while no PID is assigned returns     *)
(* true.                                                                   *)
C10_ProbeUnassignedReturnsTrue ==
    [][\A t \in Threads :
          (running(t) /\ ~has_pid) => ret'[t] = BoolVal(TRUE)]_vars

(* C10 (amended): while no PID is assigned the mutex is free, so running() *)
(* does not block; it changes no field and returns true exactly when       *)
(* has_exited_ is false (false after reset()).                             *)
C10_ProbeUnassigned ==
    /\ [](~has_pid => pid_mutex = NoThread)
    /\ [][\A t \in Threads :
            (running(t) /\ ~has_pid)
               => /\ ret'[t] = BoolVal(~has_exited_)
                  /\ pc' = [pc EXCEPT ![t] = "idle"]
                  /\ UNCHANGED watcher]_vars

(* running() has returned true on a watcher that never had a PID *)
C10_Witness ==
    \E t \in Threads :
       /\ op[t] = "running" /\ pc[t] = "idle" /\ ret[t] = BoolVal(TRUE)
       /\ pid_ = 0
       /\ ~has_exited_

----------------------------------------------------------------------------
(* C11: once reset() has been called, every later running() returns false, *)
(* whatever is called in between: reset() leaves has_exited_ true, no      *)
(* operation makes has_exited_ false again (a later set_pid of a live      *)
(* process included), and running() returns false whenever has_exited_ is  *)
(* true.                                                                   *)
C11_NotRunningAfterReset ==
    /\ [][\A t \in Threads : reset(t) => has_exited_']_vars
    /\ [][has_exited_ => has_exited_']_vars
    /\ [][\A t \in Threads :
            (running(t) /\ has_exited_)
               => /\ ret'[t] = BoolVal(FALSE)
                  /\ pc'[t] = "idle"]_vars

(* after a reset() the PID of a live process was assigned, no waitpid was  *)
(* ever issued, and running() has returned false                           *)
C11_Witness ==
    \E t, u \in Threads :
       /\ op[t] = "running" /\ pc[t] = "idle" /\ ret[t] = BoolVal(FALSE)
       /\ op[u] = "set_pid" /\ ret[u] = Self
       /\ pid_ \in Pids
       /\ proc[pid_].st = "alive"
       /\ reaps = 0

(* C12: the destructor does not wait when no PID is assigned (none was     *)
(* ever assigned, or reset() was the last call that changed the state) or  *)
(* when wait_exit_ is false: it completes in the same step, issues no      *)
(* waitpid, does not wait on pid_assigned_condition and changes no field,  *)
(* whether or not the watched process is still running.  reset() leaves    *)
(* no PID assigned, and only set_pid assigns one.                          *)
C12_DestructorDoesNotWait ==
    /\ [][\A t \in Threads :
            (destructor(t) /\ (~has_pid \/ ~wait_exit_))
               => /\ destroyed'
                  /\ pc'[t] = "idle"
                  /\ UNCHANGED <<watcher, reaps, pid_assigned_condition,
                                 pid_mutex, proc>>]_vars
    /\ [][\A t \in Threads : reset(t) => ~has_pid']_vars
    /\ [][(~has_pid /\ has_pid') => \E t \in Threads : set_pid(t)]_vars

(* the watcher was destroyed right after reset(), with wait_exit_ true,    *)
(* while a process is still running and no waitpid was ever issued         *)
C12_Witness ==
    \E t, u \in Threads :
       /\ destroyed
       /\ op[t] = "~PIDWatcher"
       /\ op[u] = "reset"
       /\ wait_exit_
       /\ ~has_pid
       /\ reaps = 0
       /\ \E p \in Pids : proc[p].st = "alive"

C14_TerminateSignalsOnlyWatched ==
    [][\A t \in Threads :
          terminate(t)
             => /\ (ret'[t].sig # "none") = (has_pid /\ ~has_exited_)
                /\ ret'[t].sig # "none" => reaps = 0
                /\ ret'[t].sig = "none" => proc' = proc
                /\ ret'[t].tag = "self"
                /\ pc'[t] = "idle"
                /\ UNCHANGED <<watcher, pid_assigned_condition, reaps>>]_vars

(* terminate() has signalled a process that had already left the process   *)
(* table: the kill failed, terminate() returned *this and has_exited_ is   *)
(* still false                                                             *)
C14_Witness ==
    \E t \in Threads :
       /\ op[t] = "terminate" /\ pc[t] = "idle" /\ ret[t] = SelfSignal("failed")
       /\ pid_ \in Pids
       /\ proc[pid_].st = "gone"
       /\ ~has_exited_

(* C15 (as claimed): once some thread's wait() has returned (the thread    *)
(* is back from wait(), or is about to read status_ in exitedProperly(),   *)
(* getExitStatus() or success()), no step of any thread changes pid_,      *)
(* status_ or has_exited_.                                                 *)
C15_FrozenAfterWait ==
    [][(\E t \in Threads : op[t] \in WaitOps /\ pc[t] \in {"idle", "read"})
          => UNCHANGED <<pid_, status_, has_exited_>>]_vars

(* C16 (as claimed): when success() or exitedProperly() returns true, this *)
(* watcher has issued a waitpid for the assigned process, the process has  *)
(* left the process table, and the status it terminated with is a normal   *)
(* exit (with code 0 for success()).                                       *)
C16_SuccessMeansReapedNormalExit ==
    [][\A t \in Threads :
          (/\ read_status(t)
           /\ op[t] \in {"success", "exitedProperly"}
           /\ ret'[t] = BoolVal(TRUE))
             => /\ reaps > 0
                /\ pid_ \in Pids
                /\ proc[pid_].st = "gone"
                /\ WIFEXITED(proc[pid_].status)
                /\ op[t] = "success" => WEXITSTATUS(proc[pid_].status) = 0]_vars

(* C17: when running() returns false on a watcher with a PID assigned,     *)
(* has_exited_ is true afterwards and the call has changed neither pid_    *)
(* nor status_, has issued no waitpid and has left the processes alone;    *)
(* and while a PID is assigned and has_exited_ is true, wait() (also as    *)
(* the first statement of the status accessors) returns in the same step,  *)
(* without a waitpid, without waiting on pid_assigned_condition and        *)
(* without changing a field; the mutex is free whenever has_exited_ is     *)
(* true, so the call does not block at the CSingleLock either.             *)
C17_FailedProbeThenWait ==
    /\ [][\A t \in Threads :
            (running(t) /\ has_pid /\ ret'[t] = BoolVal(FALSE))
               => /\ has_exited_'
                  /\ pc'[t] = "idle"
                  /\ UNCHANGED <<pid_, status_, wait_exit_, reaps, proc>>]_vars
    /\ [](has_exited_ => pid_mutex = NoThread)
    /\ [][\A t \in Threads :
            (wait(t) /\ has_pid /\ has_exited_)
               => /\ pc'[t] = IF op'[t] = "wait" THEN "idle" ELSE "read"
                  /\ op'[t] = "wait" => ret'[t] = Self
                  /\ UNCHANGED <<watcher, reaps, proc, pid_mutex,
                                 pid_assigned_condition>>]_vars

(* the process left the process table unseen, running() found it gone and  *)
(* returned false, and the other thread's wait() has returned although no  *)
(* waitpid was ever issued                                                 *)
C17_Witness ==
    \E t, u \in Threads :
       /\ op[t] = "running" /\ pc[t] = "idle" /\ ret[t] = BoolVal(FALSE)
       /\ op[u] = "wait" /\ pc[u] = "idle" /\ ret[u] = Self
       /\ pid_ \in Pids
       /\ proc[pid_].st = "gone"
       /\ has_exited_
       /\ reaps = 0

----------------------------------------------------------------------------
(* The documented use watcher.terminate().wait(): one thread runs the      *)
(* chain while the spawning thread assigns the child's PID, probes the     *)
(* watcher and reads and sets its flags.  The child exits when, and only   *)
(* when, it has received SIGTERM.                                          *)

ChainThread == NumThreads
SpawnThread == NumThreads - 1

(* watcher.terminate() *)
ChainTerminate ==
    /\ op[ChainThread] = "none"
    /\ terminate(ChainThread)

(* .wait(), called on the reference terminate() returned *)
ChainWait ==
    /\ op[ChainThread] = "terminate"
    /\ wait(ChainThread)
    /\ op'[ChainThread] = "wait"

(* the chain has returned *)
ChainReturned == op[ChainThread] = "wait" /\ pc[ChainThread] = "idle"

(* a step of the thread that runs the chain *)
ChainStep ==
    \/ ChainTerminate
    \/ ChainWait
    \/ ensure_pid_return(ChainThread)
    \/ waitpid_return(ChainThread)

(* the spawning thread assigns the PID of the child *)
SpawnAssign ==
    /\ set_pid(SpawnThread)
    /\ arg'[SpawnThread] \in Pids

(* the spawning thread calls a method while the chain holds the mutex *)
SpawnBlock ==
    \E m \in Methods \ (WaitOps \cup {"get_pid", "reset", "terminate"}),
       a \in Pids \cup {0} :
       Block(SpawnThread, m, a)

ChainNext ==
    \/ ChainTerminate
    \/ ChainWait
    \/ ensure_pid_return(ChainThread)
    \/ waitpid_return(ChainThread)
    \/ SpawnAssign
    \/ SpawnBlock
    \/ set_pid_throw(SpawnThread)
    \/ running(SpawnThread)
    \/ has_pid_call(SpawnThread)
    \/ getWaitExit(SpawnThread)
    \/ setWaitExit(SpawnThread)
    \/ \E p \in Pids : ProcTerminated(p)

(* every thread that can run does run, a signalled child dies, and the     *)
(* spawning thread does assign the PID                                     *)
SpecChain ==
    /\ Init
    /\ [][ChainNext]_vars
    /\ WF_vars(ChainStep)
    /\ WF_vars(SpawnAssign)
    /\ WF_vars(\E p \in Pids : ProcTerminated(p))

(* C18 (as claimed): the chain terminate().wait() never gets stuck: until  *)
(* it has returned, the chain itself can take a step, or the child is      *)
(* about to die of the signal, or the spawning thread can assign the PID;  *)
(* and when it has returned the child is dead.  Under the fairness of      *)
(* SpecChain this is the claim that the chain eventually returns.          *)
C18_ChainNeverStuck ==
    /\ ~ChainReturned
          => ENABLED (ChainStep \/ SpawnAssign \/ \E p \in Pids : ProcTerminated(p))
    /\ ChainReturned => procOf(pid_).st # "alive"

====
